---- MODULE Spec2Model ----
(***************************************************************************)
(* A model of meval.ai's record I/O layer (pkg/sources: JSONSource and its *)
(* validator, the source factory) and of its evaluator (pkg/evaluators:    *)
(* GeminiEvaluator: prompt templates, Evaluate and BatchEvaluate).         *)
(*                                                                         *)
(* Go values are records [t |-> dynamic type, v |-> payload]; a Record     *)
(* (map[string]interface{}) is a function from a set of field names to Go  *)
(* values.  File contents are sequences of tokens (JSON punctuation, line  *)
(* breaks, and `"key": value` members), so that encoding and decoding are  *)
(* two different computations.                                             *)
(***************************************************************************)
EXTENDS Integers, Sequences, FiniteSets, TLC

VARIABLES
    vRecord,    \* validateRecord: the record under validation
    vSchema,    \* validateRecord: the schema (config.SchemaConfig.Fields)
    vErr,       \* validateRecord: the error returned
    vDone,      \* validateRecord: whether the call was made
    disk,       \* the file system: name -> [kind, data]
    js,         \* the JSONSource j: path, mode, schema, isWritable, writer
    ret,        \* what the last call on the source returned
    intent,     \* history: the items each input file was made from
    written,    \* history: the records Write has encoded, in order
    nWrites,    \* history: the number of Write calls made
    nPassed,    \* history: the number of records passed to Write
    writesOk,   \* history: every Write call so far returned nil
    lastCall,   \* history: the arguments of the last call on the source
    bControls,  \* the run's config.ControlsConfig: Concurrency, OnError
    bRecords,   \* BatchEvaluate: the records argument
    bResults,   \* BatchEvaluate: the results slice
    bNext,      \* BatchEvaluate: the index of the record the loop takes next
    bInFlight,  \* the indices of the records whose Evaluate call is running
    bCtx,       \* whether the run's context is cancelled
    bPc,        \* BatchEvaluate: "idle", "running" or "returned"
    bErr,       \* BatchEvaluate: the error returned
    bAdmits,    \* history: each Evaluate call started, and what was known then
    bCalls,     \* history: each Evaluate call that returned, and the provider's answer
    tPrompt,    \* applyPromptTemplate: the prompt argument
    tRecord,    \* applyPromptTemplate: the record argument
    tProcessed, \* applyPromptTemplate: processedPrompt
    tTodo,      \* applyPromptTemplate: the keys the range loop has yet to visit
    tPc,        \* applyPromptTemplate: "idle", "loop" or "returned"
    fCfg,       \* CreateSource / NewJSONSource: the cfg argument
    fFormat,    \* CreateSource: the format argument
    fRet        \* what CreateSource / NewJSONSource returned

valVars == <<vRecord, vSchema, vErr, vDone>>

srcVars == <<disk, js, ret, intent, written, nWrites, nPassed, writesOk, lastCall>>

batchVars == <<bControls, bRecords, bResults, bNext, bInFlight, bCtx, bPc, bErr, bAdmits,
               bCalls>>

tplVars == <<tPrompt, tRecord, tProcessed, tTodo, tPc>>

facVars == <<fCfg, fFormat, fRet>>

vars == <<vRecord, vSchema, vErr, vDone,
          disk, js, ret, intent, written, nWrites, nPassed, writesOk, lastCall,
          bControls, bRecords, bResults, bNext, bInFlight, bCtx, bPc, bErr, bAdmits, bCalls,
          tPrompt, tRecord, tProcessed, tTodo, tPc,
          fCfg, fFormat, fRet>>

\* ------------------------------------------------------------------ bounds

\* Longest schema (number of declared fields) the validator is checked on.
MaxSchemaLen == 2

\* The most Write calls of one run, and the most records passed to them.
MaxWrites == 2

MaxRecs == 3

\* The most items (records, blank lines, malformed text) in the input files.
MaxItems == 3

\* The most records of one batch, and the largest concurrency bound configured.
MaxBatch == 3

MaxConcurrency == 2

\* The most pieces (a placeholder, or text between placeholders) of a prompt.
MaxPieces == 3

\* ------------------------------------------------------------- Go values

FieldNames == {"a", "b"}

GoValue(t, v) == [t |-> t, v |-> v]

\* The dynamic Go types a Record's values are drawn from.  encoding/json
\* produces string, float64, bool, []interface{}, map[string]interface{} and
\* nil; callers of Write build records in Go and may hold any other type.
ValuePool ==
    { GoValue("string", "x"), GoValue("string", "y"),
      GoValue("float64", "1"), GoValue("int", "1"), GoValue("uint", "1"),
      GoValue("bool", "true"),
      GoValue("[]interface{}", "[]"), GoValue("[]string", "[]"),
      GoValue("map[string]interface{}", "{}"),
      GoValue("nil", "null") }

\* Record: map[string]interface{}.
Records == UNION { [D -> ValuePool] : D \in SUBSET FieldNames }

\* config.FieldConfig
Field(name, type) == [Name |-> name, Type |-> type]

\* The five kinds the configuration validator accepts, and one it does not.
SupportedTypes == {"string", "number", "boolean", "array", "object"}

DeclaredTypes == SupportedTypes \cup {"integer"}

Fields == { Field(n, t) : n \in FieldNames, t \in DeclaredTypes }

SeqsUpTo(S, n) == UNION { [1..k -> S] : k \in 0..n }

Schemas == SeqsUpTo(Fields, MaxSchemaLen)

\* ------------------------------------------------------------------ errors

\* An error value; NoError is Go's nil error.
Error(kind, field, want, got) ==
    [kind |-> kind, file |-> "", pos |-> 0, field |-> field, want |-> want, got |-> got]

NoError == Error("nil", "", "", "")

\* fmt.Errorf("...: %w", err) keeps the cause and adds the place.
WrapAt(err, kind, file, pos) == [err EXCEPT !.kind = kind, !.file = file, !.pos = pos]

\* --------------------------------------------------------------- validator

\* The Go types the "number" case of validateFieldType lists.
NumberTypes == {"float64", "float32", "int", "int32", "int64"}

validateFieldType(value, expectedType) ==
    CASE expectedType = "string" ->
            IF value.t = "string" THEN NoError
            ELSE Error("type", "", "string", value.t)
      [] expectedType = "number" ->
            IF value.t \in NumberTypes THEN NoError
            ELSE Error("type", "", "number", value.t)
      [] expectedType = "boolean" ->
            IF value.t = "bool" THEN NoError
            ELSE Error("type", "", "boolean", value.t)
      [] expectedType = "array" ->
            IF value.t = "[]interface{}" THEN NoError
            ELSE Error("type", "", "array", value.t)
      [] expectedType = "object" ->
            IF value.t = "map[string]interface{}" THEN NoError
            ELSE Error("type", "", "object", value.t)
      [] OTHER -> Error("unsupported type", "", expectedType, "")

\* validateRecord from field i of the schema on: the first violation, in
\* declared order, or NoError.
RECURSIVE validateFrom(_, _, _)
validateFrom(record, fields, i) ==
    IF i > Len(fields) THEN NoError
    ELSE IF fields[i].Name \notin DOMAIN record
         THEN Error("missing required field", fields[i].Name, "", "")
         ELSE LET err == validateFieldType(record[fields[i].Name], fields[i].Type)
              IN  IF err # NoError
                  THEN [err EXCEPT !.field = fields[i].Name]
                  ELSE validateFrom(record, fields, i + 1)

validateRecord(record, fields) == validateFrom(record, fields, 1)

\* ------------------------------------------------------------ JSON text

\* One token of a file's text: punctuation, a line break ("nl"), the literal
\* null, text that is not JSON ("junk"), or an object member `"k": value`
\* (c = "member") carrying the JSON type and text of its value.
Tok(c) == [c |-> c, k |-> "", t |-> "", v |-> ""]

Member(k, jv) == [c |-> "member", k |-> k, t |-> jv.t, v |-> jv.v]

NL == Tok("nl")

\* json.Marshal of a Go value: the JSON type it is written as.
toJSON(value) ==
    [t |-> CASE value.t = "string" -> "string"
             [] value.t \in {"float64", "float32", "int", "int32", "int64", "uint"} -> "number"
             [] value.t = "bool" -> "bool"
             [] value.t \in {"[]interface{}", "[]string"} -> "array"
             [] value.t = "map[string]interface{}" -> "object"
             [] OTHER -> "null",
     v |-> value.v]

\* json.Unmarshal into interface{}: the Go value a JSON value decodes to.
fromJSON(jv) ==
    GoValue(CASE jv.t = "string" -> "string"
              [] jv.t = "number" -> "float64"
              [] jv.t = "bool" -> "bool"
              [] jv.t = "array" -> "[]interface{}"
              [] jv.t = "object" -> "map[string]interface{}"
              [] OTHER -> "nil",
            jv.v)

\* encoding/json writes a map's keys in sorted order.
KeyOrder == <<"a", "b">>

RECURSIVE SelectIn(_, _)
SelectIn(s, S) ==
    IF s = <<>> THEN <<>>
    ELSE (IF Head(s) \in S THEN <<Head(s)>> ELSE <<>>) \o SelectIn(Tail(s), S)

SortedKeys(record) == SelectIn(KeyOrder, DOMAIN record)

\* The members of an object, each on its own line when indented.
RECURSIVE membersFrom(_, _, _, _)
membersFrom(record, keys, i, sep) ==
    IF i > Len(keys) THEN <<>>
    ELSE <<Member(keys[i], toJSON(record[keys[i]]))>>
         \o (IF i < Len(keys) THEN sep ELSE <<>>)
         \o membersFrom(record, keys, i + 1, sep)

\* encoder.SetIndent("", "  "); encoder.Encode(record): an empty map is
\* `{}`, any other map is spread over one line per member between the braces;
\* Encode ends the value with a line break.
encodeIndent(record) ==
    LET keys == SortedKeys(record)
    IN  IF keys = <<>>
        THEN <<Tok("{"), Tok("}"), NL>>
        ELSE <<Tok("{"), NL>>
             \o membersFrom(record, keys, 1, <<Tok(","), NL>>)
             \o <<NL, Tok("}"), NL>>

EmptyRecord == [n \in {} |-> GoValue("nil", "null")]

RecordWith(record, k, value) ==
    [n \in DOMAIN record \cup {k} |-> IF n = k THEN value ELSE record[n]]

\* JSON white space between tokens.
RECURSIVE SkipWs(_, _)
SkipWs(toks, i) ==
    IF i <= Len(toks) /\ toks[i].c = "nl" THEN SkipWs(toks, i + 1) ELSE i

At(toks, i) == IF i <= Len(toks) THEN toks[i].c ELSE "eof"

ParseFail == [ok |-> FALSE, rec |-> EmptyRecord, next |-> 0]

\* The members of an object after its opening brace, up to its closing one.
RECURSIVE parseMembers(_, _, _)
parseMembers(toks, i, record) ==
    IF At(toks, i) # "member" THEN ParseFail
    ELSE LET rec1 == RecordWith(record, toks[i].k, fromJSON(toks[i]))
             j == SkipWs(toks, i + 1)
         IN  CASE At(toks, j) = "," -> parseMembers(toks, SkipWs(toks, j + 1), rec1)
               [] At(toks, j) = "}" -> [ok |-> TRUE, rec |-> rec1, next |-> j + 1]
               [] OTHER -> ParseFail

\* json.Unmarshal of one array element or one line into a Record: an object,
\* or null (which leaves the map nil); i is at its first token.
parseRecord(toks, i) ==
    CASE At(toks, i) = "null" -> [ok |-> TRUE, rec |-> EmptyRecord, next |-> i + 1]
      [] At(toks, i) = "{" ->
            LET j == SkipWs(toks, i + 1)
            IN  IF At(toks, j) = "}"
                THEN [ok |-> TRUE, rec |-> EmptyRecord, next |-> j + 1]
                ELSE parseMembers(toks, j, EmptyRecord)
      [] OTHER -> ParseFail

\* The elements of an array after its opening bracket.
RECURSIVE parseElements(_, _, _)
parseElements(toks, i, recs) ==
    LET r == parseRecord(toks, i)
    IN  IF ~r.ok THEN [ok |-> FALSE, recs |-> <<>>]
        ELSE LET j == SkipWs(toks, r.next)
             IN  CASE At(toks, j) = "," ->
                        parseElements(toks, SkipWs(toks, j + 1), Append(recs, r.rec))
                   [] At(toks, j) = "]" -> [ok |-> TRUE, recs |-> Append(recs, r.rec)]
                   [] OTHER -> [ok |-> FALSE, recs |-> <<>>]

\* decoder.Decode(&rawRecords) and the json.Unmarshal of each element: the
\* first JSON value of the text must be an array (or null) of objects; text
\* after it is not read.
decodeArray(toks) ==
    LET i == SkipWs(toks, 1)
    IN  CASE At(toks, i) = "null" -> [ok |-> TRUE, recs |-> <<>>]
          [] At(toks, i) = "[" ->
                LET j == SkipWs(toks, i + 1)
                IN  IF At(toks, j) = "]" THEN [ok |-> TRUE, recs |-> <<>>]
                    ELSE parseElements(toks, j, <<>>)
          [] OTHER -> [ok |-> FALSE, recs |-> <<>>]

\* bufio.Scanner with ScanLines: the text between line breaks; a last line
\* without a line break is a line when it is not empty.
RECURSIVE splitLines(_, _, _)
splitLines(toks, i, cur) ==
    IF i > Len(toks) THEN (IF cur = <<>> THEN <<>> ELSE <<cur>>)
    ELSE IF toks[i].c = "nl" THEN <<cur>> \o splitLines(toks, i + 1, <<>>)
    ELSE splitLines(toks, i + 1, Append(cur, toks[i]))

ScanLines(toks) == splitLines(toks, 1, <<>>)

\* json.Unmarshal(line, &record): the whole line is one object (or null).
unmarshalLine(line) ==
    LET r == parseRecord(line, 1)
    IN  IF r.ok /\ r.next = Len(line) + 1 THEN r ELSE ParseFail

\* ----------------------------------------------------------- file system

\* The names the model's file system knows, in the lexical order
\* filepath.Glob returns its matches in.
NameOrder == <<"/", "d1.json", "d2.json", "d3.json", "out.json">>

Names == { NameOrder[i] : i \in 1..Len(NameOrder) }

\* The paths a source is configured with: a pattern matching the input
\* files, a plain relative name, the root directory, a pattern matching
\* nothing, a malformed pattern, the empty string, and the output file.
Paths == {"d*.json", "d1.json", "/", "x*.json", "d[.json", "", "out.json"}

Entry(kind, data) == [kind |-> kind, data |-> data]

Absent == Entry("absent", <<>>)

\* path/filepath on the model's paths.
IsAbs(path) == path = "/"

Base(path) == IF path = "" THEN "." ELSE path

Dir(path) == IF path = "/" THEN "/" ELSE "."

containsAny(path, chars) ==
    \/ ("*" \in chars /\ path \in {"d*.json", "x*.json"})
    \/ ("[" \in chars /\ path = "d[.json")

containsWildcard(path) ==
    \/ Base(path) # path
    \/ Dir(path) = "."
    \/ containsAny(path, {"*", "?", "["})

\* filepath.Match on the model's names.
Match(pattern, name) ==
    pattern = "d*.json" /\ name \in {"d1.json", "d2.json", "d3.json"}

\* os.Lstat succeeds on whatever exists; os.Stat follows links, and fails
\* on a link to nothing.
Lstat(d, name) == name \in Names /\ d[name].kind # "absent"

Stat(d, name) == name \in Names /\ d[name].kind \in {"file", "dir"}

\* filepath.Glob: a pattern without meta characters is the name itself when
\* it exists; otherwise the existing names that match, sorted.
Glob(d, pattern) ==
    IF pattern = "d[.json"
    THEN [matches |-> <<>>, err |-> Error("syntax error in pattern", "", "", "")]
    ELSE IF ~containsAny(pattern, {"*", "?", "["})
    THEN [matches |-> IF Lstat(d, pattern) THEN <<pattern>> ELSE <<>>, err |-> NoError]
    ELSE [matches |-> SelectIn(NameOrder,
                               { n \in Names : Match(pattern, n) /\ Lstat(d, n) }),
          err |-> NoError]

findFiles(d, path) ==
    IF IsAbs(path) /\ ~containsWildcard(path)
    THEN IF ~Stat(d, path)
         THEN [files |-> <<>>, err |-> Error("stat", "", "", "")]
         ELSE [files |-> <<path>>, err |-> NoError]
    ELSE LET g == Glob(d, path)
         IN  IF g.err # NoError THEN [files |-> <<>>, err |-> g.err]
             ELSE [files |-> SelectIn(g.matches,
                                      { n \in Names : Stat(d, n) /\ d[n].kind # "dir" }),
                   err |-> NoError]

\* ------------------------------------------------------- JSONSource: Read

Returned(records, err) == [records |-> records, err |-> err]

\* The validation loop of readJSONArray, from element i on.
RECURSIVE validateArrayFrom(_, _, _, _)
validateArrayFrom(recs, fields, i, records) ==
    IF i > Len(recs) THEN Returned(records, NoError)
    ELSE LET err == validateRecord(recs[i], fields)
         IN  IF err # NoError
             THEN Returned(<<>>, WrapAt(err, "record validation failed", "", i - 1))
             ELSE validateArrayFrom(recs, fields, i + 1, Append(records, recs[i]))

readJSONArray(toks, fields) ==
    LET d == decodeArray(toks)
    IN  IF ~d.ok
        THEN Returned(<<>>, Error("failed to decode JSON array", "", "", ""))
        ELSE validateArrayFrom(d.recs, fields, 1, <<>>)

\* readLinesFrom numbering the lines that hold text instead of all lines.
RECURSIVE readLinesFromCountingText(_, _, _, _)
readLinesFromCountingText(lines, fields, lineNum, records) ==
    IF lineNum > Len(lines) THEN Returned(records, NoError)
    ELSE IF Len(lines[lineNum]) = 0
    THEN readLinesFromCountingText(lines, fields, lineNum + 1, records)
    ELSE LET r == unmarshalLine(lines[lineNum])
             n == Len(records) + 1
         IN  IF ~r.ok
             THEN Returned(<<>>, WrapAt(Error("failed to unmarshal line", "", "", ""),
                                        "failed to unmarshal line", "", n))
             ELSE LET err == validateRecord(r.rec, fields)
                  IN  IF err # NoError
                      THEN Returned(<<>>, WrapAt(err, "line validation failed", "", n))
                      ELSE readLinesFromCountingText(lines, fields, lineNum + 1,
                                                     Append(records, r.rec))

\* The scanner loop of readJSONLines, from physical line lineNum on.
RECURSIVE readLinesFrom(_, _, _, _)
readLinesFrom(lines, fields, lineNum, records) ==
    IF lineNum > Len(lines) THEN Returned(records, NoError)
    ELSE IF Len(lines[lineNum]) = 0
    THEN readLinesFrom(lines, fields, lineNum + 1, records)
    ELSE LET r == unmarshalLine(lines[lineNum])
         IN  IF ~r.ok
             THEN Returned(<<>>, WrapAt(Error("failed to unmarshal line", "", "", ""),
                                        "failed to unmarshal line", "", lineNum))
             ELSE LET err == validateRecord(r.rec, fields)
                  IN  IF err # NoError
                      THEN Returned(<<>>, WrapAt(err, "line validation failed", "", lineNum))
                      ELSE readLinesFrom(lines, fields, lineNum + 1, Append(records, r.rec))

readJSONLines(toks, fields) == readLinesFrom(ScanLines(toks), fields, 1, <<>>)

\* readFile: os.Open, then the reader of the source's mode.  A directory
\* opens, and reading it fails.
readFile(d, path, mode, fields) ==
    IF ~Stat(d, path) THEN Returned(<<>>, Error("open", "", "", ""))
    ELSE IF d[path].kind = "dir"
    THEN Returned(<<>>, Error(IF mode = "array" THEN "failed to decode JSON array"
                                               ELSE "error reading file", "", "", ""))
    ELSE IF mode = "array" THEN readJSONArray(d[path].data, fields)
    ELSE readJSONLines(d[path].data, fields)

CtxErr == Error("context canceled", "", "", "")

\* readFrom with each file's records put before those read so far.
RECURSIVE readFromPrepending(_, _, _, _, _, _, _)
readFromPrepending(d, files, mode, fields, k, cancelAt, allRecords) ==
    IF k > Len(files) THEN Returned(allRecords, NoError)
    ELSE IF k >= cancelAt THEN Returned(allRecords, CtxErr)
    ELSE LET r == readFile(d, files[k], mode, fields)
         IN  IF r.err # NoError
             THEN Returned(<<>>, [r.err EXCEPT !.file = files[k]])
             ELSE readFromPrepending(d, files, mode, fields, k + 1, cancelAt,
                                     r.records \o allRecords)

\* readFrom returning, with the error, the records read before the failure.
RECURSIVE readFromKeeping(_, _, _, _, _, _, _)
readFromKeeping(d, files, mode, fields, k, cancelAt, allRecords) ==
    IF k > Len(files) THEN Returned(allRecords, NoError)
    ELSE IF k >= cancelAt THEN Returned(allRecords, CtxErr)
    ELSE LET r == readFile(d, files[k], mode, fields)
         IN  IF r.err # NoError
             THEN Returned(allRecords, [r.err EXCEPT !.file = files[k]])
             ELSE readFromKeeping(d, files, mode, fields, k + 1, cancelAt,
                                  allRecords \o r.records)

\* readFrom returning no records when it finds the context cancelled.
RECURSIVE readFromDroppingOnCancel(_, _, _, _, _, _, _)
readFromDroppingOnCancel(d, files, mode, fields, k, cancelAt, allRecords) ==
    IF k > Len(files) THEN Returned(allRecords, NoError)
    ELSE IF k >= cancelAt THEN Returned(<<>>, CtxErr)
    ELSE LET r == readFile(d, files[k], mode, fields)
         IN  IF r.err # NoError
             THEN Returned(<<>>, [r.err EXCEPT !.file = files[k]])
             ELSE readFromDroppingOnCancel(d, files, mode, fields, k + 1, cancelAt,
                                           allRecords \o r.records)

\* The loop of Read over the resolved files, from file k on; the context is
\* seen cancelled from the check before file cancelAt on.
RECURSIVE readFrom(_, _, _, _, _, _, _)
readFrom(d, files, mode, fields, k, cancelAt, allRecords) ==
    IF k > Len(files) THEN Returned(allRecords, NoError)
    ELSE IF k >= cancelAt THEN Returned(allRecords, CtxErr)
    ELSE LET r == readFile(d, files[k], mode, fields)
         IN  IF r.err # NoError
             THEN Returned(<<>>, [r.err EXCEPT !.file = files[k]])
             ELSE readFrom(d, files, mode, fields, k + 1, cancelAt, allRecords \o r.records)

\* ReadResult without the check for an empty file list.
ReadResultUnchecked(d, src, cancelAt) ==
    LET f == findFiles(d, src.path)
    IN  IF f.err # NoError THEN Returned(<<>>, [f.err EXCEPT !.kind = "failed to find files"])
        ELSE readFrom(d, f.files, src.mode, src.schema, 1, cancelAt, <<>>)

ReadResult(d, src, cancelAt) ==
    LET f == findFiles(d, src.path)
    IN  IF f.err # NoError THEN Returned(<<>>, [f.err EXCEPT !.kind = "failed to find files"])
        ELSE IF Len(f.files) = 0 THEN Returned(<<>>, Error("no files found", "", "", ""))
        ELSE readFrom(d, f.files, src.mode, src.schema, 1, cancelAt, <<>>)

\* --------------------------------------------- JSONSource: Write and Close

Modes == {"array", "lines"}

\* The struct NewJSONSource returns.
JSONSource(path, mode, fields) ==
    [path |-> path, mode |-> mode, schema |-> fields, isWritable |-> FALSE, writer |-> "nil"]

Written(data, encoded, err) == [data |-> data, encoded |-> encoded, err |-> err]

\* writeFrom writing to the destination whether or not it is closed.
RECURSIVE writeFromIgnoringClose(_, _, _, _, _, _, _)
writeFromIgnoringClose(mode, fields, records, i, cancelAt, canWrite, w) ==
    IF i > Len(records) THEN w
    ELSE IF i >= cancelAt THEN Written(w.data, w.encoded, CtxErr)
    ELSE LET data1 == w.data \o (IF mode = "array" /\ i > 1 THEN <<Tok(","), NL>> ELSE <<>>)
             err == validateRecord(records[i], fields)
         IN  IF err # NoError
             THEN Written(data1, w.encoded,
                          WrapAt(err, "record validation failed", "", i - 1))
             ELSE writeFromIgnoringClose(mode, fields, records, i + 1, cancelAt, canWrite,
                                         Written(data1 \o encodeIndent(records[i]),
                                                 Append(w.encoded, records[i]), NoError))

\* writeFrom encoding each record before it validates it.
RECURSIVE writeFromEncodingFirst(_, _, _, _, _, _, _)
writeFromEncodingFirst(mode, fields, records, i, cancelAt, canWrite, w) ==
    IF i > Len(records) THEN w
    ELSE IF i >= cancelAt THEN Written(w.data, w.encoded, CtxErr)
    ELSE IF ~canWrite
    THEN Written(w.data, w.encoded, Error("file already closed", "", "", ""))
    ELSE LET data1 == w.data \o (IF mode = "array" /\ i > 1 THEN <<Tok(","), NL>> ELSE <<>>)
                             \o encodeIndent(records[i])
             err == validateRecord(records[i], fields)
         IN  IF err # NoError
             THEN Written(data1, Append(w.encoded, records[i]),
                          WrapAt(err, "record validation failed", "", i - 1))
             ELSE writeFromEncodingFirst(mode, fields, records, i + 1, cancelAt, canWrite,
                                         Written(data1, Append(w.encoded, records[i]), NoError))

\* The loop of Write from record i on (1-based: Go's i is i - 1).  w is the
\* text of the destination, the records encoded and the error so far; the
\* context is seen cancelled from the check before record cancelAt on; a
\* write to a closed file fails.
RECURSIVE writeFrom(_, _, _, _, _, _, _)
writeFrom(mode, fields, records, i, cancelAt, canWrite, w) ==
    IF i > Len(records) THEN w
    ELSE IF i >= cancelAt THEN Written(w.data, w.encoded, CtxErr)
    ELSE IF mode = "array" /\ i > 1 /\ ~canWrite
    THEN Written(w.data, w.encoded, Error("file already closed", "", "", ""))
    ELSE LET data1 == w.data \o (IF mode = "array" /\ i > 1 THEN <<Tok(","), NL>> ELSE <<>>)
             err == validateRecord(records[i], fields)
         IN  IF err # NoError
             THEN Written(data1, w.encoded,
                          WrapAt(err, "record validation failed", "", i - 1))
             ELSE IF ~canWrite
             THEN Written(data1, w.encoded, Error("failed to encode record", "", "", ""))
             ELSE writeFrom(mode, fields, records, i + 1, cancelAt, canWrite,
                            Written(data1 \o encodeIndent(records[i]),
                                    Append(w.encoded, records[i]), NoError))

\* What Write leaves in the destination and returns, once the destination
\* is open: on the first call os.Create truncates it and array mode writes
\* the opening bracket.
WriteResult(d, src, records, cancelAt) ==
    LET data0 == IF src.writer = "nil"
                 THEN (IF src.mode = "array" THEN <<Tok("["), NL>> ELSE <<>>)
                 ELSE d[src.path].data
    IN  writeFrom(src.mode, src.schema, records, 1, cancelAt, src.writer # "closed",
                  Written(data0, <<>>, NoError))

Ret(op, records, err) == [op |-> op, records |-> records, err |-> err]

\* A call on the source: the method, the records passed to it, the check of
\* the context from which the context is seen cancelled, whether the call
\* was the one to open the destination, and the destination's text before it.
Call(op, records, cancelAt, opens, before) ==
    [op |-> op, records |-> records, cancelAt |-> cancelAt, opens |-> opens,
     before |-> before]

NoCall == Call("none", <<>>, 0, FALSE, <<>>)

\* Write(ctx, records).  createFails: os.MkdirAll or os.Create fails.
Write(records, cancelAt, createFails) ==
    /\ js.path \in Names
    /\ nWrites < MaxWrites
    /\ nPassed + Len(records) <= MaxRecs
    /\ cancelAt \in 1..(Len(records) + 1)
    /\ createFails => js.writer = "nil"
    /\ IF createFails
       THEN /\ ret' = Ret("Write", <<>>, Error("failed to create file", "", "", ""))
            /\ UNCHANGED <<disk, js, written>>
       ELSE LET w == WriteResult(disk, js, records, cancelAt)
            IN  /\ disk' = [disk EXCEPT ![js.path] = Entry("file", w.data)]
                /\ js' = IF js.writer = "nil"
                         THEN [js EXCEPT !.writer = "open", !.isWritable = TRUE]
                         ELSE js
                /\ written' = written \o w.encoded
                /\ ret' = Ret("Write", <<>>, w.err)
    /\ nWrites' = nWrites + 1
    /\ nPassed' = nPassed + Len(records)
    /\ writesOk' = (writesOk /\ ret'.err = NoError)
    /\ lastCall' = Call("Write", records, cancelAt, js.writer = "nil" /\ ~createFails,
                        disk[js.path].data)
    /\ UNCHANGED <<intent, valVars, batchVars, tplVars, facVars>>

\* CloseResult finalizing the destination also when Write never opened it.
CloseResultAlwaysFinalizing(d, src) ==
    IF src.writer = "closed"
    THEN [disk |-> d, src |-> src, err |-> Error("file already closed", "", "", "")]
    ELSE [disk |-> IF src.path \in Names
                   THEN [d EXCEPT ![src.path] =
                            Entry("file", (IF src.writer = "nil" THEN <<>> ELSE @.data)
                                          \o (IF src.mode = "array" THEN <<NL, Tok("]")>>
                                                                    ELSE <<>>))]
                   ELSE d,
          src |-> [src EXCEPT !.writer = "closed"],
          err |-> NoError]

\* What Close leaves and returns: nothing to do without a writer; array mode
\* appends the closing bracket; the file is closed and j.writer stays set, so
\* a second Close writes to, or closes, a closed file and fails.
CloseResult(d, src) ==
    CASE src.writer = "nil" -> [disk |-> d, src |-> src, err |-> NoError]
      [] src.writer = "closed" ->
            [disk |-> d, src |-> src, err |-> Error("file already closed", "", "", "")]
      [] OTHER ->
            [disk |-> IF src.mode = "array"
                      THEN [d EXCEPT ![src.path].data = @ \o <<NL, Tok("]")>>]
                      ELSE d,
             src |-> [src EXCEPT !.writer = "closed"],
             err |-> NoError]

Close ==
    LET c == CloseResult(disk, js)
    IN  /\ disk' = c.disk
        /\ js' = c.src
        /\ ret' = Ret("Close", <<>>, c.err)
        /\ lastCall' = Call("Close", <<>>, 0, FALSE, <<>>)
        /\ UNCHANGED <<intent, written, nWrites, nPassed, writesOk, valVars, batchVars, tplVars, facVars>>

\* Read(ctx).
Read(cancelAt) ==
    /\ cancelAt \in 1..(Len(findFiles(disk, js.path).files) + 1)
    /\ LET r == ReadResult(disk, js, cancelAt)
       IN  ret' = Ret("Read", r.records, r.err)
    /\ lastCall' = Call("Read", <<>>, cancelAt, FALSE, <<>>)
    /\ UNCHANGED <<disk, js, intent, written, nWrites, nPassed, writesOk, valVars, batchVars, tplVars, facVars>>

\* ------------------------------------------------------------ input files

\* The schema the sources of the I/O specifications are bound to.
SrcSchema == <<Field("a", "string")>>

Rec1 == [n \in {"a"} |-> GoValue("string", "x")]

Rec2 == [n \in {"a", "b"} |-> IF n = "a" THEN GoValue("string", "y") ELSE GoValue("float64", "1")]

\* A record without the required field.
RecBad == [n \in {"b"} |-> GoValue("float64", "1")]

Item(kind, rec) == [kind |-> kind, rec |-> rec]

Blank == Item("blank", EmptyRecord)

Junk == Item("junk", EmptyRecord)

ItemPool == {Item("rec", Rec1), Item("rec", Rec2), Item("rec", RecBad), Junk, Blank}

\* json.MarshalIndent of one element, as the tests lay their input out.
indentObject(record) ==
    LET keys == SortedKeys(record)
    IN  IF keys = <<>> THEN <<Tok("{"), Tok("}")>>
        ELSE <<Tok("{"), NL>> \o membersFrom(record, keys, 1, <<Tok(","), NL>>)
             \o <<NL, Tok("}")>>

\* One object on one line.
compactObject(record) ==
    <<Tok("{")>> \o membersFrom(record, SortedKeys(record), 1, <<Tok(",")>>) \o <<Tok("}")>>

RECURSIVE arrayItemsFrom(_, _, _)
arrayItemsFrom(items, i, first) ==
    IF i > Len(items) THEN <<>>
    ELSE IF items[i].kind = "blank" THEN <<NL>> \o arrayItemsFrom(items, i + 1, first)
    ELSE (IF first THEN <<>> ELSE <<Tok(","), NL>>)
         \o (IF items[i].kind = "junk" THEN <<Tok("junk")>> ELSE indentObject(items[i].rec))
         \o arrayItemsFrom(items, i + 1, FALSE)

\* An array document holding the items' records; a blank item is an empty
\* line between elements, a junk item is text that is not JSON.
arrayDocument(items) == <<Tok("[")>> \o arrayItemsFrom(items, 1, TRUE) \o <<Tok("]")>>

RECURSIVE linesFrom(_, _)
linesFrom(items, i) ==
    IF i > Len(items) THEN <<>>
    ELSE (CASE items[i].kind = "blank" -> <<>>
            [] items[i].kind = "junk" -> <<Tok("junk")>>
            [] OTHER -> compactObject(items[i].rec))
         \o (IF i < Len(items) THEN <<NL>> ELSE <<>>)
         \o linesFrom(items, i + 1)

\* A lines document: item i is physical line i; the last line has no line
\* break after it.
linesDocument(items) == linesFrom(items, 1)

Document(mode, items) ==
    IF mode = "array" THEN arrayDocument(items) ELSE linesDocument(items)

InputNames == {"d1.json", "d2.json", "d3.json"}

\* What a name of the input directory holds: a document, a zero-length
\* file, nothing, a directory, or a link to nothing.
SlotKinds == {"doc", "zero", "absent", "dir", "dangling"}

Slot(kind, mode, items) ==
    CASE kind = "doc" -> Entry("file", Document(mode, items))
      [] kind = "zero" -> Entry("file", <<>>)
      [] OTHER -> Entry(kind, <<>>)

\* ------------------------------------------------------ GeminiEvaluator

\* evaluators.Result
Result(input, output, metadata, err) ==
    [Input |-> input, Output |-> output, Metadata |-> metadata, Error |-> err]

\* The zero Result of make([]Result, n).
ZeroResult == Result(EmptyRecord, "nil", "nil", NoError)

\* What the provider does with one request: answers with text, answers with
\* text that is JSON, fails in transport, answers with a status other than
\* 200, answers 200 with a body that is not JSON, or answers 200 with a body
\* without candidates.
Replies == {"text", "json", "transport error", "status error", "bad body", "no candidates"}

\* makeAPICall: the request carries the context, so it fails when the
\* context is cancelled; a transport failure and a non-200 status are errors.
makeAPICall(cancelled, reply) ==
    CASE cancelled -> Error("API request failed", "", "", "context canceled")
      [] reply = "transport error" -> Error("API request failed", "", "", "")
      [] reply = "status error" -> Error("API error", "", "", "")
      [] reply = "bad body" -> Error("failed to decode response", "", "", "")
      [] OTHER -> NoError

\* parseResponse taking a body without candidates for an empty answer.
parseResponseLenient(reply) ==
    [output |-> "response", metadata |-> "metadata", err |-> NoError]

\* parseResponse: the output map (the text, and its parse when it is JSON),
\* the metadata map and the error.
parseResponse(reply) ==
    IF reply = "no candidates"
    THEN [output |-> "nil", metadata |-> "nil",
          err |-> Error("no candidates in response", "", "", "")]
    ELSE [output |-> IF reply = "json" THEN "response+parsed" ELSE "response",
          metadata |-> "metadata", err |-> NoError]

\* Evaluate: the Result and the error returned.
Evaluate(record, cancelled, reply) ==
    LET callErr == makeAPICall(cancelled, reply)
        parsed == parseResponse(reply)
    IN  IF callErr # NoError
        THEN [result |-> Result(record, "nil", "nil", callErr), err |-> callErr]
        ELSE IF parsed.err # NoError
        THEN [result |-> Result(record, "nil", "nil", parsed.err), err |-> parsed.err]
        ELSE [result |-> Result(record, parsed.output, parsed.metadata, NoError),
              err |-> NoError]

\* results[i] = r with the result appended to the slice instead.
appendResult(results, i, r) == Append(results, r)

\* results[i] = r
setResult(results, i, r) == [results EXCEPT ![i] = r]

\* loopBody storing nothing for a record whose Evaluate call failed.
loopBodyDroppingFailure(results, records, i, cancelled, reply) ==
    LET e == Evaluate(records[i], cancelled, reply)
    IN  IF e.err # NoError THEN results ELSE setResult(results, i, e.result)

\* The body of BatchEvaluate's loop for record i, once Evaluate has returned.
loopBody(results, records, i, cancelled, reply) ==
    LET e == Evaluate(records[i], cancelled, reply)
    IN  IF e.err # NoError
        THEN setResult(results, i, Result(records[i], "nil", "nil", e.err))
        ELSE setResult(results, i, e.result)

Failed(results) == { i \in 1..Len(results) : results[i].Error # NoError }

\* BatchEvaluate is called: results := make([]Result, len(records)).
StartBatch ==
    /\ bPc = "idle"
    /\ bPc' = "running"
    /\ bResults' = [i \in 1..Len(bRecords) |-> ZeroResult]
    /\ bNext' = 1
    /\ UNCHANGED <<bControls, bRecords, bInFlight, bCtx, bErr, bAdmits, bCalls, valVars, srcVars, tplVars, facVars>>

\* The loop takes the next record and calls Evaluate; the call runs until
\* the provider has answered.
BeginEvaluate ==
    /\ bPc = "running"
    /\ bInFlight = {}
    /\ bNext <= Len(bRecords)
    /\ bInFlight' = {bNext}
    /\ bNext' = bNext + 1
    /\ bAdmits' = Append(bAdmits, [i |-> bNext, afterFailure |-> Failed(bResults) # {},
                                   afterCancel |-> bCtx])
    /\ UNCHANGED <<bControls, bRecords, bResults, bCtx, bPc, bErr, bCalls, valVars, srcVars, tplVars, facVars>>

\* Evaluate returns and the loop stores the record's result.  A call begun
\* under a cancelled context fails; one cancelled while it runs fails, or
\* had its answer already.
FinishEvaluate(i, reply) ==
    /\ bPc = "running"
    /\ i \in bInFlight
    /\ LET cancelled == bAdmits[Len(bAdmits)].afterCancel \/ (bCtx /\ reply = "transport error")
       IN  /\ bResults' = loopBody(bResults, bRecords, i, cancelled, reply)
           /\ bCalls' = Append(bCalls, [i |-> i, reply |-> reply, cancelled |-> cancelled])
    /\ bInFlight' = bInFlight \ {i}
    /\ UNCHANGED <<bControls, bRecords, bNext, bCtx, bPc, bErr, bAdmits, valVars, srcVars, tplVars, facVars>>

\* The loop is over: return results, nil.
ReturnBatch ==
    /\ bPc = "running"
    /\ bInFlight = {}
    /\ bNext > Len(bRecords)
    /\ bPc' = "returned"
    /\ bErr' = NoError
    /\ UNCHANGED <<bControls, bRecords, bResults, bNext, bInFlight, bCtx, bAdmits,
                   bCalls, valVars, srcVars, tplVars, facVars>>

\* The caller cancels the run's context.
CancelCtx ==
    /\ ~bCtx
    /\ bPc # "returned"
    /\ bCtx' = TRUE
    /\ UNCHANGED <<bControls, bRecords, bResults, bNext, bInFlight, bPc, bErr, bAdmits,
                   bCalls, valVars, srcVars, tplVars, facVars>>

\* A run that evaluates nothing.
BatchIdle ==
    /\ bControls = [Concurrency |-> 1, OnError |-> "skip"]
    /\ bRecords = <<>>
    /\ bResults = <<>>
    /\ bNext = 1
    /\ bInFlight = {}
    /\ bCtx = FALSE
    /\ bPc = "idle"
    /\ bErr = NoError
    /\ bAdmits = <<>>
    /\ bCalls = <<>>

\* ------------------------------------- GeminiEvaluator: applyPromptTemplate

\* A string is the sequence of its characters.
\* fmt.Sprintf("{{%s}}", key)
Placeholder(key) == <<"{", "{", key, "}", "}">>

\* The characters of the strings the templated records hold.
Chars(str) ==
    CASE str = "hi" -> <<"h", "i">>
      [] str = "{{a}}" -> Placeholder("a")
      [] str = "{{b}}" -> Placeholder("b")
      [] str = "1" -> <<"1">>
      [] str = "true" -> <<"t", "r", "u", "e">>
      [] OTHER -> <<>>

\* fmt.Sprintf("%v", value): a string as it is, a number and a boolean in
\* their usual notation, nil as <nil>.
Sprint(value) ==
    IF value.t = "nil" THEN <<"<", "n", "i", "l", ">">> ELSE Chars(value.v)

\* strings.ReplaceAll(str, old, new) for a non-empty old: the occurrences of
\* old that do not overlap, found from the left, from position i on.
RECURSIVE replaceFrom(_, _, _, _)
replaceFrom(str, i, old, new) ==
    IF i > Len(str) THEN <<>>
    ELSE IF i + Len(old) - 1 <= Len(str) /\ SubSeq(str, i, i + Len(old) - 1) = old
    THEN new \o replaceFrom(str, i + Len(old), old, new)
    ELSE <<str[i]>> \o replaceFrom(str, i + 1, old, new)

ReplaceAll(str, old, new) == replaceFrom(str, 1, old, new)

\* The body of applyPromptTemplate's loop for one key of the record.
replaceKey(processedPrompt, record, key) ==
    ReplaceAll(processedPrompt, Placeholder(key), Sprint(record[key]))

\* applyPromptTemplate is called: processedPrompt := prompt, and the range
\* over the record begins.
ApplyBegin ==
    /\ tPc = "idle"
    /\ tProcessed' = tPrompt
    /\ tTodo' = DOMAIN tRecord
    /\ tPc' = "loop"
    /\ UNCHANGED <<tPrompt, tRecord, valVars, srcVars, batchVars, facVars>>

\* One iteration of the range over the record: a map is ranged over in an
\* order the runtime picks.
ApplyKey(key) ==
    /\ tPc = "loop"
    /\ key \in tTodo
    /\ tProcessed' = replaceKey(tProcessed, tRecord, key)
    /\ tTodo' = tTodo \ {key}
    /\ UNCHANGED <<tPrompt, tRecord, tPc, valVars, srcVars, batchVars, facVars>>

\* return processedPrompt
ApplyReturn ==
    /\ tPc = "loop"
    /\ tTodo = {}
    /\ tPc' = "returned"
    /\ UNCHANGED <<tPrompt, tRecord, tProcessed, tTodo, valVars, srcVars, batchVars, facVars>>

\* An evaluator that renders nothing.
TplIdle ==
    /\ tPrompt = <<>>
    /\ tRecord = EmptyRecord
    /\ tProcessed = <<>>
    /\ tTodo = {}
    /\ tPc = "idle"

\* ------------------------------------- NewJSONSource and DefaultFactory

CfgKeys == {"path", "mode"}

\* The values a cfg map holds under "path" and under "mode".
CfgValues(key) ==
    IF key = "path"
    THEN {GoValue("string", "out.json"), GoValue("string", "d*.json"), GoValue("string", ""),
          GoValue("float64", "1"), GoValue("nil", "null")}
    ELSE {GoValue("string", "array"), GoValue("string", "lines"), GoValue("string", "csv"),
          GoValue("string", ""), GoValue("float64", "1")}

\* map[string]interface{}
Cfgs ==
    UNION { { c \in [D -> UNION { CfgValues(k) : k \in CfgKeys }] :
                  \A k \in D : c[k] \in CfgValues(k) } : D \in SUBSET CfgKeys }

\* cfg[key].(string): the string and ok; the zero string when the key is
\* missing or holds a value of another type.
AsString(cfg, key) ==
    IF key \in DOMAIN cfg /\ cfg[key].t = "string"
    THEN [s |-> cfg[key].v, ok |-> TRUE]
    ELSE [s |-> "", ok |-> FALSE]

\* A returned source: the dynamic type of the Source interface value ("nil"
\* for the nil interface, "none" where a *JSONSource is returned as such),
\* whether the pointer is set, and the struct it points to.
SourceVal(iface, ptr, val) == [iface |-> iface, ptr |-> ptr, val |-> val]

NilSource(iface) == SourceVal(iface, "nil", JSONSource("", "", <<>>))

Made(op, src, err) == [op |-> op, src |-> src, err |-> err]

NewJSONSource(cfg, schema) ==
    LET path == AsString(cfg, "path")
        given == AsString(cfg, "mode").s
        mode == IF given = "" THEN "array" ELSE given
    IN  IF ~path.ok
        THEN Made("NewJSONSource", NilSource("none"),
                  Error("path is required for JSON source", "", "", ""))
        ELSE IF mode # "array" /\ mode # "lines"
        THEN Made("NewJSONSource", NilSource("none"), Error("unsupported mode", "", "", mode))
        ELSE Made("NewJSONSource", SourceVal("none", "set", JSONSource(path.s, mode, schema)),
                  NoError)

\* CreateSource building a JSON source for the formats not yet implemented.
CreateSourceFallback(cfg, format, schema) ==
    LET made == NewJSONSource(cfg, schema)
    IN  IF format \in {"json", "csv", "parquet"}
        THEN Made("CreateSource", [made.src EXCEPT !.iface = "*JSONSource"], made.err)
        ELSE Made("CreateSource", NilSource("nil"), Error("unsupported format", "", "", format))

\* DefaultFactory.CreateSource.  The *JSONSource NewJSONSource returns is
\* converted to a Source: the interface value holds the type *JSONSource
\* also when the pointer is nil.
CreateSource(cfg, format, schema) ==
    CASE format = "json" ->
            LET made == NewJSONSource(cfg, schema)
            IN  Made("CreateSource", [made.src EXCEPT !.iface = "*JSONSource"], made.err)
      [] format = "csv" ->
            Made("CreateSource", NilSource("nil"),
                 Error("not yet implemented", "", "", "CSV"))
      [] format = "parquet" ->
            Made("CreateSource", NilSource("nil"),
                 Error("not yet implemented", "", "", "Parquet"))
      [] OTHER ->
            Made("CreateSource", NilSource("nil"), Error("unsupported format", "", "", format))

\* A call of the factory.
CallCreateSource ==
    /\ fRet.op = "none"
    /\ fRet' = CreateSource(fCfg, fFormat, SrcSchema)
    /\ UNCHANGED <<fCfg, fFormat, valVars, srcVars, batchVars, tplVars>>

\* A call of the constructor.
CallNewJSONSource ==
    /\ fRet.op = "none"
    /\ fRet' = NewJSONSource(fCfg, SrcSchema)
    /\ UNCHANGED <<fCfg, fFormat, valVars, srcVars, batchVars, tplVars>>

\* A run that constructs no source through the factory.
FacIdle ==
    /\ fCfg = EmptyRecord
    /\ fFormat = "json"
    /\ fRet = Made("none", NilSource("nil"), NoError)

\* The source of a run that makes no file I/O.
SrcIdle ==
    /\ disk = [n \in Names |-> IF n = "/" THEN Entry("dir", <<>>) ELSE Absent]
    /\ js = JSONSource("out.json", "array", SrcSchema)
    /\ ret = Ret("none", <<>>, NoError)
    /\ intent = [n \in Names |-> <<>>]
    /\ written = <<>>
    /\ nWrites = 0
    /\ nPassed = 0
    /\ writesOk = TRUE
    /\ lastCall = NoCall

\* The validator of a run that only does file I/O.
ValIdle ==
    /\ vRecord = EmptyRecord
    /\ vSchema = <<>>
    /\ vErr = NoError
    /\ vDone = FALSE

InitValidate ==
    /\ vRecord \in Records
    /\ vSchema \in Schemas
    /\ vErr = NoError
    /\ vDone = FALSE
    /\ SrcIdle
    /\ BatchIdle
    /\ TplIdle
    /\ FacIdle

CallValidate ==
    /\ ~vDone
    /\ vErr' = validateRecord(vRecord, vSchema)
    /\ vDone' = TRUE
    /\ UNCHANGED <<vRecord, vSchema, srcVars, batchVars, tplVars, facVars>>

NextValidate == CallValidate

SpecValidate == InitValidate /\ [][NextValidate]_vars

\* ------------------------------------------- specification: batch evaluation

\* The values validateControls accepts for controls.on_error.
OnErrorModes == {"retry", "skip", "fail"}

\* A validated configuration and a batch of records read from a source.
InitBatch ==
    /\ bControls \in [Concurrency : 1..MaxConcurrency, OnError : OnErrorModes]
    /\ bRecords \in SeqsUpTo({Rec1, Rec2}, MaxBatch)
    /\ bResults = <<>>
    /\ bNext = 1
    /\ bInFlight = {}
    /\ bCtx = FALSE
    /\ bPc = "idle"
    /\ bErr = NoError
    /\ bAdmits = <<>>
    /\ bCalls = <<>>
    /\ ValIdle
    /\ TplIdle
    /\ FacIdle
    /\ SrcIdle

NextBatch ==
    \/ StartBatch
    \/ BeginEvaluate
    \/ \E i \in 1..MaxBatch : \E reply \in Replies : FinishEvaluate(i, reply)
    \/ ReturnBatch
    \/ CancelCtx

SpecBatch == InitBatch /\ [][NextBatch]_vars

\* ------------------------------------------ specification: prompt templates

\* What a prompt is made of: text, and placeholders for the keys a, b and c.
Pieces == {<<"x">>, Placeholder("a"), Placeholder("b"), Placeholder("c")}

RECURSIVE Flatten(_, _)
Flatten(pieces, i) ==
    IF i > Len(pieces) THEN <<>> ELSE pieces[i] \o Flatten(pieces, i + 1)

Prompts == { Flatten(p, 1) : p \in SeqsUpTo(Pieces, MaxPieces) }

\* The values of the records a prompt is rendered against: text, text that
\* reads as a placeholder, a number, a boolean and null.
TplValues ==
    {GoValue("string", "hi"), GoValue("string", "{{a}}"), GoValue("string", "{{b}}"),
     GoValue("float64", "1"), GoValue("bool", "true"), GoValue("nil", "null")}

TplRecords == UNION { [D -> TplValues] : D \in SUBSET FieldNames }

InitTemplate ==
    /\ tPrompt \in Prompts
    /\ tRecord \in TplRecords
    /\ tProcessed = <<>>
    /\ tTodo = {}
    /\ tPc = "idle"
    /\ ValIdle
    /\ SrcIdle
    /\ BatchIdle
    /\ FacIdle

NextTemplate ==
    \/ ApplyBegin
    \/ \E key \in FieldNames : ApplyKey(key)
    \/ ApplyReturn

SpecTemplate == InitTemplate /\ [][NextTemplate]_vars

\* ------------------------------------------- specification: source factory

Formats == {"json", "csv", "parquet", "xml", "JSON", ""}

InitFactory ==
    /\ fCfg \in Cfgs
    /\ fFormat \in Formats
    /\ fRet = Made("none", NilSource("nil"), NoError)
    /\ ValIdle
    /\ SrcIdle
    /\ BatchIdle
    /\ TplIdle

NextFactory ==
    \/ CallCreateSource
    \/ CallNewJSONSource

SpecFactory == InitFactory /\ [][NextFactory]_vars

\* ------------------------------------------------- specification: writing

WritePool == {Rec1, Rec2, RecBad}

\* A source bound to an output path that does not exist yet, or holds the
\* text of an earlier run.
InitWrite ==
    /\ \E mode \in Modes : js = JSONSource("out.json", mode, SrcSchema)
    /\ \E old \in {Absent, Entry("file", <<Tok("junk")>>)} :
           disk = [n \in Names |-> IF n = "/" THEN Entry("dir", <<>>)
                                   ELSE IF n = "out.json" THEN old ELSE Absent]
    /\ ret = Ret("none", <<>>, NoError)
    /\ intent = [n \in Names |-> <<>>]
    /\ written = <<>>
    /\ nWrites = 0
    /\ nPassed = 0
    /\ writesOk = TRUE
    /\ lastCall = NoCall
    /\ ValIdle
    /\ TplIdle
    /\ FacIdle
    /\ BatchIdle

NextWrite ==
    \/ \E records \in SeqsUpTo(WritePool, MaxRecs) :
           \E cancelAt \in 1..(MaxRecs + 1) : \E createFails \in BOOLEAN :
               Write(records, cancelAt, createFails)
    \/ Close
    \/ \E cancelAt \in 1..(Len(NameOrder) + 1) : Read(cancelAt)

SpecWrite == InitWrite /\ [][NextWrite]_vars

\* ------------------------------------------------- specification: reading

ReadPaths == {"d*.json", "d1.json", "/", "x*.json", "d[.json", ""}

\* A source bound to a path over an input directory of up to three names.
\* The items are dealt to the names in order; a name that got none holds any
\* of the SlotKinds.  The paths other than the matching pattern, and the
\* names that hold neither a document nor nothing, are met with at most one
\* item in the directory.
InitRead ==
    /\ \E items \in SeqsUpTo(ItemPool, MaxItems), mode \in Modes, path \in ReadPaths :
       \E c1 \in 0..Len(items) : \E c2 \in c1..Len(items) :
       \E kinds \in [InputNames -> SlotKinds] :
           LET parts == [n \in InputNames |->
                            CASE n = "d1.json" -> SubSeq(items, 1, c1)
                              [] n = "d2.json" -> SubSeq(items, c1 + 1, c2)
                              [] OTHER -> SubSeq(items, c2 + 1, Len(items))]
           IN  /\ \A n \in InputNames : parts[n] # <<>> => kinds[n] = "doc"
               /\ \/ Len(items) <= 1
                  \/ path = "d*.json" /\ \A n \in InputNames : kinds[n] \in {"doc", "absent"}
               /\ js = JSONSource(path, mode, SrcSchema)
               /\ intent = [n \in Names |-> IF n \in InputNames THEN parts[n] ELSE <<>>]
               /\ disk = [n \in Names |->
                            IF n = "/" THEN Entry("dir", <<>>)
                            ELSE IF n \in InputNames THEN Slot(kinds[n], mode, parts[n])
                            ELSE Absent]
    /\ ret = Ret("none", <<>>, NoError)
    /\ written = <<>>
    /\ nWrites = 0
    /\ nPassed = 0
    /\ writesOk = TRUE
    /\ lastCall = NoCall
    /\ ValIdle
    /\ TplIdle
    /\ FacIdle
    /\ BatchIdle

NextRead ==
    \/ \E cancelAt \in 1..(Len(NameOrder) + 1) : Read(cancelAt)
    \/ Close

SpecRead == InitRead /\ [][NextRead]_vars

\* ------------------------------------------------------------- claim C1

\* The kind of a value under the acceptance rule: textual values are
\* strings, every numeric representation is a number, true/false is a
\* boolean, every ordered sequence is an array, every mapping is an object.
KindOf(value) ==
    CASE value.t = "string" -> "string"
      [] value.t \in {"float64", "float32", "int", "int32", "int64", "uint"} -> "number"
      [] value.t = "bool" -> "boolean"
      [] value.t \in {"[]interface{}", "[]string"} -> "array"
      [] value.t = "map[string]interface{}" -> "object"
      [] OTHER -> "null"

Conforms(record, fields) ==
    \A i \in 1..Len(fields) :
        /\ fields[i].Name \in DOMAIN record
        /\ KindOf(record[fields[i].Name]) = fields[i].Type

\* C1: validateRecord(R) under S succeeds if and only if R holds every field
\* of S with a value of the declared kind, whatever extra keys R has.
C1_ValidateIffConforms ==
    vDone => ((vErr = NoError) <=> Conforms(vRecord, vSchema))

\* --------------------------------------------------- claims C2, C3 and C4

StripWs(toks) == SelectSeq(toks, LAMBDA t : t.c # "nl")

RECURSIVE elementsFrom(_, _)
elementsFrom(recs, i) ==
    IF i > Len(recs) THEN <<>>
    ELSE (IF i > 1 THEN <<Tok(",")>> ELSE <<>>) \o compactObject(recs[i])
         \o elementsFrom(recs, i + 1)

\* The text, white space aside, of the JSON array of the records recs.
ArrayText(recs) == <<Tok("[")>> \o elementsFrom(recs, 1) \o <<Tok("]")>>

\* The source was written to and then closed, and every Write returned nil.
WrittenAndClosed == js.writer = "closed" /\ nWrites >= 1 /\ writesOk

\* C2: after one Write of schema-valid records and Close, a Read that is not
\* cancelled returns, in either mode, the sequence written.
C2_RoundTrip ==
    (ret.op = "Read" /\ ret.err # CtxErr /\ WrittenAndClosed /\ nWrites = 1)
        => (ret.err = NoError /\ ret.records = written)

\* C3: in array mode, after one or more successful Write calls and Close,
\* the destination is the JSON array of the records of all the calls, in
\* order: an opening bracket, the records with a comma between every two,
\* and the closing bracket.
C3_ArrayWellFormed ==
    (js.mode = "array" /\ WrittenAndClosed)
        => StripWs(disk[js.path].data) = ArrayText(written)

NonBlankLines(toks) == SelectSeq(ScanLines(toks), LAMBDA line : line # <<>>)

\* C4: in lines mode the destination holds one physical line per record
\* written: its non-blank lines are the records, one object each, in order.
C4_OneLinePerRecord ==
    (js.mode = "lines" /\ js.writer # "nil")
        => /\ Len(NonBlankLines(disk[js.path].data)) = Len(written)
           /\ \A i \in 1..Len(written) :
                  NonBlankLines(disk[js.path].data)[i] = compactObject(written[i])

\* ------------------------------------------------ claims C5, C6 and C7

\* The regular files the source's path names, in resolution order.
ResolvedFiles ==
    SelectIn(NameOrder, { n \in Names : /\ n = js.path \/ Match(js.path, n)
                                        /\ disk[n].kind = "file" })

\* The names the path matches that are directories.
MatchedDirs ==
    { n \in Names : (n = js.path \/ Match(js.path, n)) /\ disk[n].kind = "dir" }

\* A file that is a document of the source's mode whose records all conform
\* to the schema.
GoodFile(n) ==
    /\ disk[n].data = Document(js.mode, intent[n])
    /\ \A i \in 1..Len(intent[n]) :
           \/ intent[n][i].kind = "blank"
           \/ intent[n][i].kind = "rec" /\ Conforms(intent[n][i].rec, js.schema)

RECURSIVE recordsFrom(_, _)
recordsFrom(items, i) ==
    IF i > Len(items) THEN <<>>
    ELSE (IF items[i].kind = "rec" THEN <<items[i].rec>> ELSE <<>>)
         \o recordsFrom(items, i + 1)

\* The records a file was made from, in the file's order.
RecordsOf(n) == recordsFrom(intent[n], 1)

RECURSIVE concatFrom(_, _)
concatFrom(files, k) ==
    IF k > Len(files) THEN <<>> ELSE RecordsOf(files[k]) \o concatFrom(files, k + 1)

RECURSIVE countFrom(_, _)
countFrom(files, k) ==
    IF k > Len(files) THEN 0 ELSE Len(RecordsOf(files[k])) + countFrom(files, k + 1)

AllGood(files) == \A k \in 1..Len(files) : GoodFile(files[k])

\* C5: when the path resolves to files f1..fk that all decode and validate,
\* a Read that is not cancelled returns f1's records, then f2's, ..., then
\* fk's, each in the file's order; their number is the sum of the files'.
C5_ReadConcatenates ==
    (ret.op = "Read" /\ ret.err # CtxErr /\ Len(ResolvedFiles) >= 1 /\ AllGood(ResolvedFiles))
        => /\ ret.err = NoError
           /\ ret.records = concatFrom(ResolvedFiles, 1)
           /\ Len(ret.records) = countFrom(ResolvedFiles, 1)

\* Three records read from at least two files, one of which holds two, with
\* two different records among them.
C5_Witness ==
    /\ ret.op = "Read" /\ ret.err = NoError
    /\ Len(ResolvedFiles) >= 2 /\ AllGood(ResolvedFiles)
    /\ Len(ret.records) = 3
    /\ \E k \in 1..Len(ResolvedFiles) : Len(RecordsOf(ResolvedFiles[k])) = 2
    /\ ret.records[1] # ret.records[3]

\* C6: a Read whose path resolves to no regular file returns an error and
\* no records; a Read that succeeds with zero records resolved at least one
\* file, and every resolved file is an empty, valid document.
C6_NoFilesIsAnError ==
    /\ (ret.op = "Read" /\ Len(ResolvedFiles) = 0)
           => (ret.err # NoError /\ ret.records = <<>>)
    /\ (ret.op = "Read" /\ ret.err = NoError /\ ret.records = <<>>)
           => /\ Len(ResolvedFiles) >= 1
              /\ \A k \in 1..Len(ResolvedFiles) :
                     GoodFile(ResolvedFiles[k]) /\ RecordsOf(ResolvedFiles[k]) = <<>>

\* A Read over a pattern that only a directory matches.
C6_Witness ==
    /\ ret.op = "Read" /\ js.path = "d*.json"
    /\ Len(ResolvedFiles) = 0 /\ MatchedDirs # {}
    /\ ret.err.kind = "no files found"

\* The first resolved file that does not decode or validate, or 0.
FirstBad(files) ==
    IF AllGood(files) THEN 0
    ELSE CHOOSE k \in 1..Len(files) :
             ~GoodFile(files[k]) /\ \A m \in 1..(k - 1) : GoodFile(files[m])

\* C7: a Read that reaches a file with a record that fails to decode or to
\* validate returns an error naming that file, and no records: neither those
\* of the earlier files nor the earlier ones of that file.
C7_FailureDiscardsAll ==
    (ret.op = "Read" /\ ret.err # CtxErr /\ FirstBad(ResolvedFiles) > 0)
        => /\ ret.err # NoError
           /\ ret.err.file = ResolvedFiles[FirstBad(ResolvedFiles)]
           /\ ret.records = <<>>

\* A failed Read whose first file is valid and holds a record, and whose
\* second file holds a valid record before the one that fails.
C7_Witness ==
    /\ ret.op = "Read" /\ ret.err # NoError /\ ret.err # CtxErr
    /\ FirstBad(ResolvedFiles) = 2
    /\ RecordsOf(ResolvedFiles[1]) # <<>>
    /\ Len(intent[ResolvedFiles[2]]) = 2
    /\ intent[ResolvedFiles[2]][1] = Item("rec", Rec1)
    /\ ret.records = <<>>

\* ------------------------------------------------- claims C8, C9 and C10

\* C8: the batch evaluation returns one result per input record, and
\* result i holds record i as its Input, whichever records failed.
C8_ResultsAligned ==
    bPc = "returned"
        => /\ Len(bResults) = Len(bRecords)
           /\ \A i \in 1..Len(bRecords) : bResults[i].Input = bRecords[i]

\* A returned batch of three records, not all the same, of which one failed
\* and one succeeded.
C8_Witness ==
    /\ bPc = "returned"
    /\ Len(bRecords) = 3 /\ bRecords[1] # bRecords[2]
    /\ Failed(bResults) # {} /\ Failed(bResults) # 1..3

\* C9: the number of evaluations in flight never exceeds the configured
\* concurrency bound, and while a record is pending and fewer than that many
\* are in flight the next record can be admitted.
C9_BoundedAndSaturating ==
    bPc = "running"
        => /\ Cardinality(bInFlight) <= bControls.Concurrency
           /\ (bNext <= Len(bRecords) /\ Cardinality(bInFlight) < bControls.Concurrency)
                  => ENABLED BeginEvaluate

\* C10: under on_error = fail no Evaluate call is started once a record has
\* failed, and the run returns that failure as its error.
C10_FailStopsTheRun ==
    bControls.OnError = "fail"
        => /\ \A k \in 1..Len(bAdmits) : ~bAdmits[k].afterFailure
           /\ (bPc = "returned" /\ Failed(bResults) # {}) => bErr # NoError

\* ------------------------------------------- claims C11, C12, C13 and C14

\* The answers of the provider that are a failed call: no connection, a
\* status other than success, and a body that is not the expected response.
FailedAnswers == {"transport error", "status error", "bad body", "no candidates"}

CallFailed(c) == c.cancelled \/ c.reply \in FailedAnswers

\* The Evaluate calls made for record i, as positions of the call history.
CallsOf(i) == { k \in 1..Len(bCalls) : bCalls[k].i = i }

LastCallOf(i) == bCalls[CHOOSE k \in CallsOf(i) : \A m \in CallsOf(i) : m <= k]

\* The records whose provider call failed.
FailedRecords == { i \in 1..Len(bRecords) : CallsOf(i) # {} /\ CallFailed(LastCallOf(i)) }

\* C11: under on_error = skip the batch returns no run-level error, every
\* record was evaluated whichever records failed before it, there is one
\* result per record, and the results that carry a failure are exactly those
\* of the records whose provider call failed.
C11_SkipContinues ==
    (bControls.OnError = "skip" /\ bPc = "returned")
        => /\ bErr = NoError
           /\ Len(bResults) = Len(bRecords)
           /\ \A i \in 1..Len(bRecords) : CallsOf(i) # {}
           /\ Failed(bResults) = FailedRecords

\* A returned batch of three records under skip in which only the call of
\* the second record failed.
C11_Witness ==
    /\ bControls.OnError = "skip" /\ bPc = "returned" /\ ~bCtx
    /\ Len(bRecords) = 3
    /\ FailedRecords = {2}
    /\ Failed(bResults) = {2}

\* C12: under on_error = retry a record whose evaluation failed, in a run
\* that was not cancelled, is attempted again at least once.
C12_RetryReattempts ==
    (bControls.OnError = "retry" /\ bPc = "returned" /\ ~bCtx)
        => \A i \in FailedRecords : Cardinality(CallsOf(i)) >= 2

\* C13: no Evaluate call is started once the context is cancelled, and a
\* run in which a call was cut short by the cancellation returns an error.
C13_CancelStopsAdmission ==
    /\ \A k \in 1..Len(bAdmits) : ~bAdmits[k].afterCancel
    /\ (bPc = "returned" /\ \E k \in 1..Len(bCalls) : bCalls[k].cancelled)
           => bErr # NoError

\* C14: every result of an Evaluate call that has returned holds the record
\* evaluated as its Input and exactly one of Output and Error: Error, with
\* neither Output nor Metadata, when the provider call failed, and Output,
\* with a nil Error, when it succeeded; so does every entry of the returned
\* sequence.
C14_OutputXorError ==
    \A i \in 1..Len(bResults) :
        /\ bPc = "returned" => (bResults[i].Output # "nil") # (bResults[i].Error # NoError)
        /\ CallsOf(i) # {} =>
               /\ bResults[i].Input = bRecords[i]
               /\ (bResults[i].Output # "nil") # (bResults[i].Error # NoError)
               /\ CallFailed(LastCallOf(i)) =>
                      /\ bResults[i].Error # NoError
                      /\ bResults[i].Output = "nil"
                      /\ bResults[i].Metadata = "nil"
               /\ ~CallFailed(LastCallOf(i)) =>
                      /\ bResults[i].Output # "nil"
                      /\ bResults[i].Error = NoError

\* A returned batch with a result of each kind: an answer whose text is
\* JSON, a body without candidates, and a call cut short by cancellation.
C14_Witness ==
    /\ bPc = "returned" /\ Len(bRecords) = 3
    /\ \E i, k, m \in 1..3 :
           /\ LastCallOf(i).reply = "json" /\ ~LastCallOf(i).cancelled
           /\ bResults[i].Output = "response+parsed"
           /\ LastCallOf(k).reply = "no candidates" /\ ~LastCallOf(k).cancelled
           /\ bResults[k].Error.kind = "no candidates in response"
           /\ LastCallOf(m).cancelled
           /\ bResults[m].Error # NoError

\* -------------------------------------------------------------- claim C15

\* The keys of the record whose placeholder stands at position i of the prompt.
KeysAt(prompt, record, i) ==
    { k \in DOMAIN record :
          i + 4 <= Len(prompt) /\ SubSeq(prompt, i, i + 4) = Placeholder(k) }

\* The prompt from position i on, with every placeholder of a key of the
\* record replaced by the text of the key's value, and the rest as it is.
RECURSIVE renderFrom(_, _, _)
renderFrom(prompt, record, i) ==
    IF i > Len(prompt) THEN <<>>
    ELSE IF KeysAt(prompt, record, i) # {}
    THEN Sprint(record[CHOOSE k \in KeysAt(prompt, record, i) : TRUE])
         \o renderFrom(prompt, record, i + 5)
    ELSE <<prompt[i]>> \o renderFrom(prompt, record, i + 1)

Rendered(prompt, record) == renderFrom(prompt, record, 1)

\* C15: the rendered prompt is the template with every placeholder of a
\* field of the record replaced by the text of the field's value, and every
\* other placeholder, and all other text, left as it is.
C15_TemplateRendering ==
    tPc = "returned" => tProcessed = Rendered(tPrompt, tRecord)

\* ----------------------------------------------------- claims C16 and C17

\* The value returned is a source: it points to a JSONSource.
IsSource(src) == src.ptr = "set"

\* C16: CreateSource returns a source only for the format json, and then
\* the JSON source of the cfg; for csv and parquet it returns a
\* not-implemented error, for every other name an unsupported-format error;
\* it returns a source or an error, never both.
C16_FactoryByFormat ==
    fRet.op = "CreateSource"
        => /\ IsSource(fRet.src) => fFormat = "json"
           /\ IsSource(fRet.src) <=> fRet.err = NoError
           /\ fFormat \in {"csv", "parquet"} => fRet.err.kind = "not yet implemented"
           /\ fFormat \notin {"json", "csv", "parquet"}
                  => fRet.err.kind = "unsupported format"
           /\ IsSource(fRet.src) => fRet.src.val = NewJSONSource(fCfg, SrcSchema).src.val

\* The factory asked for a csv source with a cfg a JSON source accepts.
C16_Witness ==
    /\ fRet.op = "CreateSource" /\ fFormat = "csv"
    /\ NewJSONSource(fCfg, SrcSchema).err = NoError
    /\ fRet.err.kind = "not yet implemented"
    /\ ~IsSource(fRet.src)

\* C17: NewJSONSource returns an error and no source when the cfg has no
\* path or an empty one, and when it has a mode other than array and lines.
C17_ConstructionFails ==
    (/\ fRet.op = "NewJSONSource"
     /\ \/ "path" \notin DOMAIN fCfg
        \/ fCfg["path"] = GoValue("string", "")
        \/ "mode" \in DOMAIN fCfg
           /\ fCfg["mode"] \notin {GoValue("string", "array"), GoValue("string", "lines")})
        => (fRet.err # NoError /\ ~IsSource(fRet.src))

\* -------------------------------------------------------------- claim C18

\* The first of the records that does not conform to the source's schema, or 0.
FirstInvalid(records) ==
    IF \A i \in 1..Len(records) : Conforms(records[i], js.schema) THEN 0
    ELSE CHOOSE k \in 1..Len(records) :
             /\ ~Conforms(records[k], js.schema)
             /\ \A m \in 1..(k - 1) : Conforms(records[m], js.schema)

\* A text without its line breaks and commas.
StripSep(toks) == SelectSeq(toks, LAMBDA t : t.c \notin {"nl", ","})

RECURSIVE objectsFrom(_, _, _)
objectsFrom(records, i, n) ==
    IF i > n THEN <<>>
    ELSE StripSep(compactObject(records[i])) \o objectsFrom(records, i + 1, n)

\* The text the destination holds when the last Write begins to encode.
TextAtStart ==
    IF lastCall.opens
    THEN (IF js.mode = "array" THEN <<Tok("[")>> ELSE <<>>)
    ELSE StripSep(lastCall.before)

\* C18: a Write to an open destination that reaches a record that does not
\* conform to the schema returns a validation error; the destination then
\* holds what it held, followed by the records of the call before that
\* record, and neither that record nor a later one.
C18_WriteStopsAtInvalid ==
    (/\ ret.op = "Write" /\ js.writer = "open"
     /\ FirstInvalid(lastCall.records) > 0
     /\ lastCall.cancelAt > FirstInvalid(lastCall.records))
        => /\ ret.err.kind = "record validation failed"
           /\ StripSep(disk[js.path].data)
                  = TextAtStart \o objectsFrom(lastCall.records, 1,
                                               FirstInvalid(lastCall.records) - 1)

\* A second Write of a valid record, a record without the required field and
\* a valid record, after a Write that wrote a record.
C18_Witness ==
    /\ ret.op = "Write" /\ js.writer = "open" /\ nWrites = 2
    /\ ~lastCall.opens /\ lastCall.before # <<>>
    /\ Len(lastCall.records) = 2
    /\ FirstInvalid(lastCall.records) = 2
    /\ lastCall.cancelAt > 2
    /\ ret.err.kind = "record validation failed"
    /\ Len(written) = 2

\* -------------------------------------------------------------- claim C19

\* C19: a Read that finds the context cancelled when it comes to the k-th
\* resolved file, the files before it being valid, returns the context's
\* error and the records of the files before the k-th, in order, whatever
\* the k-th and the later files hold; a Read returns records together with
\* an error in no other case.
C19_CancelledRead ==
    /\ (/\ ret.op = "Read"
        /\ lastCall.cancelAt <= Len(ResolvedFiles)
        /\ \A m \in 1..(lastCall.cancelAt - 1) : GoodFile(ResolvedFiles[m]))
           => /\ ret.err = CtxErr
              /\ ret.records = concatFrom(SubSeq(ResolvedFiles, 1, lastCall.cancelAt - 1), 1)
    /\ (ret.op = "Read" /\ ret.err # NoError /\ ret.records # <<>>) => ret.err = CtxErr

\* A Read cancelled before its second file, which does not decode, after a
\* first file that holds records.
C19_Witness ==
    /\ ret.op = "Read" /\ lastCall.cancelAt = 2
    /\ Len(ResolvedFiles) >= 2
    /\ GoodFile(ResolvedFiles[1]) /\ ~GoodFile(ResolvedFiles[2])
    /\ ret.err = CtxErr
    /\ Len(ret.records) >= 1

\* -------------------------------------------------------------- claim C20

BadItem(item) ==
    \/ item.kind = "junk"
    \/ item.kind = "rec" /\ ~Conforms(item.rec, js.schema)

\* The first item of a file that does not decode or validate: item i is the
\* file's physical line i.
FirstBadLine(n) ==
    CHOOSE i \in 1..Len(intent[n]) :
        BadItem(intent[n][i]) /\ \A m \in 1..(i - 1) : ~BadItem(intent[n][m])

\* C20: a Read in lines mode that is not cancelled returns one record per
\* non-blank line, in line order, and none for a blank line; when a line
\* does not decode or validate, the error carries that line's number among
\* all the lines of its file, the blank ones counted from 1; a zero-length
\* file gives no records and no error.
C20_LinesMode ==
    (ret.op = "Read" /\ js.mode = "lines" /\ ret.err # CtxErr /\ Len(ResolvedFiles) >= 1)
        => /\ AllGood(ResolvedFiles)
                  => (ret.err = NoError /\ ret.records = concatFrom(ResolvedFiles, 1))
           /\ ~AllGood(ResolvedFiles)
                  => LET f == ResolvedFiles[FirstBad(ResolvedFiles)]
                     IN  /\ ret.err.file = f
                         /\ ret.err.pos = FirstBadLine(f)
                         /\ ret.err.kind =
                                (IF intent[f][FirstBadLine(f)].kind = "junk"
                                 THEN "failed to unmarshal line"
                                 ELSE "line validation failed")
           /\ (\A k \in 1..Len(ResolvedFiles) : disk[ResolvedFiles[k]].data = <<>>)
                  => (ret.err = NoError /\ ret.records = <<>>)

\* A file whose first line is blank, whose second holds a record and whose
\* third is not JSON: the error names line 3.
C20_Witness ==
    /\ ret.op = "Read" /\ js.mode = "lines" /\ Len(ResolvedFiles) = 1
    /\ intent[ResolvedFiles[1]] = <<Blank, Item("rec", Rec1), Junk>>
    /\ ret.err.kind = "failed to unmarshal line"
    /\ ret.err.pos = 3

\* -------------------------------------------------------------- claim C21

\* The prompt after the loop has visited the keys in the order given.
RECURSIVE applyInOrder(_, _, _, _)
applyInOrder(processedPrompt, record, keys, i) ==
    IF i > Len(keys) THEN processedPrompt
    ELSE applyInOrder(replaceKey(processedPrompt, record, keys[i]), record, keys, i + 1)

\* C21: whatever order the fields of the record were visited in, the prompt
\* returned is the one a visit in the order a, b returns: the text depends
\* on the template and the record alone.
C21_OrderIndependent ==
    tPc = "returned"
        => tProcessed = applyInOrder(tPrompt, tRecord, SortedKeys(tRecord), 1)

\* -------------------------------------------------------------- claim C22

\* Every Write call before the last one encoded all its records, and the
\* last one those before its first invalid record.
OnlyLastWriteAborted ==
    /\ FirstInvalid(lastCall.records) > 0
    /\ Len(written) = nPassed - Len(lastCall.records) + FirstInvalid(lastCall.records) - 1

\* C22: in array mode, a Close that follows a Write aborted by a validation
\* failure, the earlier Write calls having succeeded, returns no error and
\* leaves the destination the JSON array of the records encoded.
C22_ClosedArrayAfterAbort ==
    [][(/\ js.mode = "array" /\ js.writer = "open"
        /\ ret.op = "Write" /\ ret.err.kind = "record validation failed"
        /\ OnlyLastWriteAborted
        /\ ret'.op = "Close")
           => /\ ret'.err = NoError
              /\ StripWs(disk'[js.path].data) = ArrayText(written')]_vars

\* -------------------------------------------------------------- claim C23

\* C23: while Write has not been called on the source, a Read or a Close
\* leaves the file system as it is, and a Close returns no error.
C23_UnwrittenSourceIsReadOnly ==
    [][(nWrites = 0 /\ nWrites' = 0)
           => /\ disk' = disk
              /\ ret'.op = "Close" => ret'.err = NoError]_vars

\* A Close on a source never written to, bound to the path of a file of an
\* earlier run.
C23_Witness ==
    /\ nWrites = 0 /\ ret.op = "Close" /\ ret.err = NoError
    /\ js.path = "out.json"
    /\ disk["out.json"] = Entry("file", <<Tok("junk")>>)

\* -------------------------------------------------------------- claim C24

\* C24: once the destination is closed, a call on the source leaves the
\* destination's contents as they are and encodes no record, and a Write
\* that returns no error was passed no records.
C24_ClosedIsFinal ==
    [][js.writer = "closed"
           => /\ disk' = disk
              /\ written' = written
              /\ js'.writer = "closed"
              /\ (ret'.op = "Write" /\ ret'.err = NoError) => lastCall'.records = <<>>]_vars

\* A Write of a valid record after Close, which fails, and leaves the array
\* closed.
C24_Witness ==
    /\ js.writer = "closed" /\ js.mode = "array"
    /\ ret.op = "Write" /\ nWrites = 2
    /\ lastCall.records = <<Rec1>> /\ lastCall.cancelAt > 1
    /\ ret.err.kind = "failed to encode record"
    /\ Len(written) = 1
    /\ StripWs(disk[js.path].data) = ArrayText(written)

====
